---- MODULE Spec2Model ----
(***************************************************************************)
(* Geotracker backend: the POI request handlers (create, update, delete,   *)
(* get-by-id, nearby-search) over the "POIs" table.                        *)
(*                                                                         *)
(* Conventions of the model                                                *)
(*   - a string is the sequence of its characters, <<"9", "1">> for "91"   *)
(*   - a number is fixed-point, in thousandths: 1.5 is 1500; distances    *)
(*     and the radius handed to the store are in whole metres              *)
(*   - a nullable column holds <<>> (NULL) or <<v>>                        *)
(*   - a JSON value is a record [t, n, s]: t its type, n its number,       *)
(*     s its characters (a string) or its elements (an array)              *)
(*   - a query parameter is <<>> (absent) or <<s>> (the string s)          *)
(***************************************************************************)
EXTENDS Integers, Sequences, FiniteSets

VARIABLES
    databaseUrl, \* process.env.DATABASE_URL: absent, or <<its characters>>
    sequelize,  \* the connection object of db.ts: NULL until constructed
    phase,      \* "loading" the modules, "starting", "listening" or "exited"
    steps,      \* the round trips of the start, in order: [call, outcome, args]
    exitCode,   \* NULL while the process runs, else <<its exit code>>
    store,      \* the "POIs" table: id -> row
    nextId,     \* the next value of the id sequence (autoIncrement)
    now,        \* the wall clock
    nodeEnv,    \* process.env.NODE_ENV
    req,        \* the last request handled
    resp,       \* the response sent for it
    calls,      \* the store round trips it made, in order: [call, outcome, args]
    pending     \* the handlers suspended at the await of their write, in
                \* order of arrival: [op, id, body, poi]

process == <<databaseUrl, sequelize, phase, steps, exitCode>>

vars == <<process, store, nextId, now, nodeEnv, req, resp, calls, pending>>

----------------------------------------------------------------------------
(* Bounds of the model *)

MaxId == 2
MaxTime == 3
MaxPending == 2
BulkExtra == 1
ListRows == 25

(* Program constants *)

DefaultRadiusKm == 5
MetersPerKm == 1000
NearbyLimit == 200
MinLat == -90
MaxLat == 90
MinLng == -180
MaxLng == 180
MetersPerDegree == 111195
DefaultPage == 1
DefaultLimit == 50

\* the thousandths in a unit of the fixed-point numbers
Milli == 10 * 10 * 10

----------------------------------------------------------------------------
(* JSON values of a request body *)

JUndef == [t |-> "undef", n |-> 0, s |-> <<>>]
JNull == [t |-> "null", n |-> 0, s |-> <<>>]
JNum(v) == [t |-> "num", n |-> v, s |-> <<>>]
JStr(chars) == [t |-> "str", n |-> 0, s |-> chars]
JArr(elems) == [t |-> "arr", n |-> 0, s |-> elems]

\* x != null in JavaScript: neither null nor undefined
NotNullish(x) == x.t \notin {"undef", "null"}

(* Numbers: NaN or a fixed-point value *)

NaN == [nan |-> TRUE, v |-> 0]
Num(v) == [nan |-> FALSE, v |-> v]

Abs(x) == IF x < 0 THEN -x ELSE x

----------------------------------------------------------------------------
(* Reading a decimal literal *)

Digits == {"0", "1", "2", "3", "4", "5", "6", "7", "8", "9"}

DigitVal(c) ==
    CASE c = "0" -> 0 [] c = "1" -> 1 [] c = "2" -> 2 [] c = "3" -> 3
      [] c = "4" -> 4 [] c = "5" -> 5 [] c = "6" -> 6 [] c = "7" -> 7
      [] c = "8" -> 8 [] c = "9" -> 9

\* the index of the first character of s at or after i that is no blank
RECURSIVE SkipBlanks(_, _)
SkipBlanks(s, i) ==
    IF i <= Len(s) /\ s[i] = " " THEN SkipBlanks(s, i + 1) ELSE i

\* the index of the last character of the run of digits of s starting at i
\* (i - 1 when s[i] is no digit)
RECURSIVE DigitsEnd(_, _)
DigitsEnd(s, i) ==
    IF i <= Len(s) /\ s[i] \in Digits THEN DigitsEnd(s, i + 1) ELSE i - 1

\* the integer written by the digits s[i..j]
RECURSIVE IntOf(_, _, _)
IntOf(s, i, j) ==
    IF j < i THEN 0 ELSE 10 * IntOf(s, i, j - 1) + DigitVal(s[j])

\* the thousandths written by the fraction digits s[i..j] (three digits kept)
FracDigit(s, k, j) == IF k <= j THEN DigitVal(s[k]) ELSE 0
FracOf(s, i, j) ==
    100 * FracDigit(s, i, j) + 10 * FracDigit(s, i + 1, j) + FracDigit(s, i + 2, j)

Signed(s, a) == a <= Len(s) /\ s[a] \in {"+", "-"}
HasDot(s, ie) == ie + 1 <= Len(s) /\ s[ie + 1] = "."

\* the index of the last character of the fraction that follows the integer
\* digits ending at ie (ie itself when no "." follows)
FractionEnd(s, ie) == IF HasDot(s, ie) THEN DigitsEnd(s, ie + 2) ELSE ie

\* the literal [+-] s[b..ie] . s[ie+2..fe] that starts at a, as [ok, v, end]:
\* ok when it has a digit, v its value, end the index of its last character
Literal(s, a, b, ie, fe) ==
    [ok |-> ie >= b \/ fe > ie + 1,
     v |-> (IF Signed(s, a) /\ s[a] = "-" THEN -1 ELSE 1)
             * (Milli * IntOf(s, b, ie)
                + (IF fe > ie THEN FracOf(s, ie + 2, fe) ELSE 0)),
     end |-> fe]

AfterInteger(s, a, b, ie) == Literal(s, a, b, ie, FractionEnd(s, ie))
AfterSign(s, a, b) == AfterInteger(s, a, b, DigitsEnd(s, b))

\* The longest prefix of s from index a that is a decimal literal
\* [+-] digits [. digits].  Exponents, "Infinity" and hexadecimal are outside
\* the model's alphabet.
DecimalPrefix(s, a) == AfterSign(s, a, IF Signed(s, a) THEN a + 1 ELSE a)

PrefixNumber(p) == IF p.ok THEN Num(p.v) ELSE NaN

\* parseFloat(x): x a query parameter.  undefined reads as "undefined": NaN.
\* Leading blanks are skipped and whatever follows the literal is ignored.
ParseFloat(q) ==
    IF q = <<>> THEN NaN
    ELSE PrefixNumber(DecimalPrefix(q[1], SkipBlanks(q[1], 1)))

\* the index of the last character of s that is no blank (0 when all are)
RECURSIVE TrimEnd(_, _)
TrimEnd(s, j) ==
    IF j >= 1 /\ s[j] = " " THEN TrimEnd(s, j - 1) ELSE j

\* whether the literal p is all of s up to z
Covers(p, z) == [empty |-> FALSE, ok |-> p.ok /\ p.end = z, v |-> p.v]

Trimmed(s, a, z) ==
    IF a > z THEN [empty |-> TRUE, ok |-> FALSE, v |-> 0]
    ELSE Covers(DecimalPrefix(s, a), z)

\* s read as a literal and nothing else, blanks around it aside: [empty, ok, v]
WholeLiteral(s) == Trimmed(s, SkipBlanks(s, 1), TrimEnd(s, Len(s)))

NumberOfLiteral(w) == IF w.empty THEN Num(0) ELSE IF w.ok THEN Num(w.v) ELSE NaN

\* Number(s) of a string: the whole trimmed string must be a literal; the
\* empty string is 0.
StringToNumber(s) == NumberOfLiteral(WholeLiteral(s))

\* Number(x) of a JSON value (arrays and booleans are not among the inputs)
JsNumber(x) ==
    CASE x.t = "num" -> Num(x.n)
      [] x.t = "str" -> StringToNumber(x.s)
      [] x.t = "null" -> Num(0)
      [] x.t = "undef" -> NaN

----------------------------------------------------------------------------
(* What the store makes of the values it is handed *)

Null == <<>>
Some(v) == <<v>>

Stored(val) == [ok |-> TRUE, val |-> val]
Rejected == [ok |-> FALSE, val |-> Null]

FloatOfLiteral(w) == IF w.ok THEN Stored(Some(w.v)) ELSE Rejected

\* a FLOAT column: a number, or a string that is wholly a decimal literal
\* (an empty or malformed string is rejected by the store)
ToFloatColumn(x) ==
    CASE x.t \in {"undef", "null"} -> Stored(Null)
      [] x.t = "num" -> Stored(Some(x.n))
      [] x.t = "str" -> FloatOfLiteral(WholeLiteral(x.s))
      [] OTHER -> Rejected

\* a STRING column
ToStringColumn(x) ==
    CASE x.t \in {"undef", "null"} -> Stored(Null)
      [] x.t = "str" -> Stored(Some(x.s))
      [] OTHER -> Rejected

\* an ARRAY(STRING) column
ToArrayColumn(x) ==
    CASE x.t \in {"undef", "null"} -> Stored(Null)
      [] x.t = "arr" -> Stored(Some(x.s))
      [] OTHER -> Rejected

PointColumn(c) ==
    IF c[1].nan \/ c[2].nan THEN Rejected ELSE Stored(Some(<<c[1].v, c[2].v>>))

\* a GEOMETRY('POINT', 4326) column, from the handler's location: Null or
\* Some([coordinates |-> <<x, y>>]) with x, y numbers; NaN is rejected
ToGeometryColumn(loc) ==
    IF loc = Null THEN Stored(Null) ELSE PointColumn(loc[1].coordinates)

\* the geometry column as the handler reads it back (GeoJSON)
FromGeometryColumn(col) ==
    IF col = Null THEN Null
    ELSE Some([coordinates |-> <<Num(col[1][1]), Num(col[1][2])>>])

IntegerLiteral(s, a, b, ie, z) ==
    IF b <= z /\ ie = z
    THEN [ok |-> TRUE,
          val |-> (IF Signed(s, a) /\ s[a] = "-" THEN -1 ELSE 1) * IntOf(s, b, ie)]
    ELSE [ok |-> FALSE, val |-> 0]

IntegerFrom(s, a, b, z) == IntegerLiteral(s, a, b, DigitsEnd(s, b), z)
IntegerIn(s, a, z) == IntegerFrom(s, a, IF Signed(s, a) THEN a + 1 ELSE a, z)

\* an INTEGER primary key, from the path parameter: the whole string must be
\* an integer literal, or the store rejects the query
ToIntegerKey(s) == IntegerIn(s, SkipBlanks(s, 1), TrimEnd(s, Len(s)))

----------------------------------------------------------------------------
(* The outcome of one round trip to the store, chosen by the environment *)

Outcomes == {"ok", "err", "errNoMessage"}

StoreErrorMessage == "store error"
NotNullMessage == "notNull Violation: POI.name cannot be null"

\* e?.message of a failed round trip
ErrorMessage(outcome) == IF outcome = "err" THEN StoreErrorMessage ELSE ""

\* a || b on strings
OrElse(a, b) == IF a = "" THEN b ELSE a

\* one round trip: what was asked, how it ended, the values bound to it
Call(name, outcome, args) == [call |-> name, outcome |-> outcome, args |-> args]

----------------------------------------------------------------------------
(* Responses *)

NotFoundMessage == "POI not found"
InvalidParametersMessage ==
    "Invalid parameters. lat, lng, and radius must be valid numbers."
\* one message for both kinds of bad input
SharedInvalidMessage == InvalidParametersMessage

InvalidCoordinatesMessage ==
    "Invalid coordinates. Latitude must be between -90 and 90, and longitude between -180 and 180."
PostGISUnavailableMessage == "PostGIS extension is not available in the database"
NearbyFailedMessage == "Failed to fetch nearby POIs"

\* res.status(status).json({ message, error }) or .json(rows) or .send()
Response(status, message, error, body) ==
    [status |-> status, message |-> message, error |-> error, body |-> body]

NoResponse == Response(0, "", "", <<>>)

\* what a handler did: its response, the store it leaves, the round trips
Result(r, st, nid, cs) == [resp |-> r, store |-> st, nextId |-> nid, calls |-> cs]

----------------------------------------------------------------------------
(* The POI model over the table *)

Fields == {"name", "description", "latitude", "longitude", "tags", "rating"}
FloatFields == {"latitude", "longitude", "rating"}
StringFields == {"name", "description"}

\* a request body, as the handlers destructure it: the six fields, a missing
\* key being undefined; any other key of the body (an id, say) is not read
Body(name, description, latitude, longitude, tags, rating) ==
    [name |-> name, description |-> description, latitude |-> latitude,
     longitude |-> longitude, tags |-> tags, rating |-> rating]

\* a request body that carries an id beside the six fields
WithId(body, id) ==
    [id |-> id, name |-> body.name, description |-> body.description,
     latitude |-> body.latitude, longitude |-> body.longitude,
     tags |-> body.tags, rating |-> body.rating]

\* const { name, description, latitude, longitude, tags, rating } = req.body
Destructured(body) ==
    Body(body.name, body.description, body.latitude, body.longitude,
         body.tags, body.rating)

WithRow(st, id, row) ==
    [i \in DOMAIN st \cup {id} |-> IF i = id THEN row ELSE st[i]]
WithoutRow(st, id) == [i \in DOMAIN st \ {id} |-> st[i]]

\* the columns a set of values is stored as
Columns(values, location) ==
    [name |-> ToStringColumn(values.name),
     description |-> ToStringColumn(values.description),
     latitude |-> ToFloatColumn(values.latitude),
     longitude |-> ToFloatColumn(values.longitude),
     tags |-> ToArrayColumn(values.tags),
     rating |-> ToFloatColumn(values.rating),
     location |-> ToGeometryColumn(location)]

Accepted(cols) ==
    /\ \A f \in Fields : cols[f].ok
    /\ cols.location.ok

\* a name column that allows null
NameAllowed(name) == FALSE

\* allowNull: false on name
NameMissing(name) == ~NotNullish(name)

\* a tags column without its defaultValue
TagsAsGiven(tags) == tags

\* defaultValue: [] on tags, used when the value is undefined
TagsOrDefault(tags) == IF tags.t = "undef" THEN JArr(<<>>) ELSE tags

\* what a call on the model did: [ok, message, row, store, nextId, calls]
Outcome(ok, message, row, st, nid, cs) ==
    [ok |-> ok, message |-> message, row |-> row, store |-> st, nextId |-> nid,
     calls |-> cs]

Lookup(st, key, outcome) ==
    IF outcome # "ok"
    THEN [ok |-> FALSE, found |-> FALSE, key |-> 0, outcome |-> outcome,
          message |-> ErrorMessage(outcome)]
    ELSE IF ~key.ok
    THEN [ok |-> FALSE, found |-> FALSE, key |-> 0, outcome |-> "rejected",
          message |-> StoreErrorMessage]
    ELSE [ok |-> TRUE, found |-> key.val \in DOMAIN st, key |-> key.val,
          outcome |-> "ok", message |-> ""]

\* POI.findByPk(id): one SELECT by primary key
findByPk(st, id, outcome) == Lookup(st, ToIntegerKey(id), outcome)

NewRow(nid, t, cols) ==
    [id |-> nid,
     name |-> cols.name.val,
     description |-> cols.description.val,
     latitude |-> cols.latitude.val,
     longitude |-> cols.longitude.val,
     tags |-> cols.tags.val,
     rating |-> cols.rating.val,
     location |-> cols.location.val,
     createdAt |-> t,
     updatedAt |-> t]

Inserted(st, nid, row) ==
    Outcome(TRUE, "", <<row>>, WithRow(st, nid, row), nid + 1,
            <<Call("insert", "ok", <<>>)>>)

\* INSERT INTO "POIs" ... RETURNING *
Insert(st, nid, t, cols) ==
    IF ~Accepted(cols)
    THEN Outcome(FALSE, StoreErrorMessage, <<>>, st, nid,
                 <<Call("insert", "rejected", <<>>)>>)
    ELSE Inserted(st, nid, NewRow(nid, t, cols))

\* POI.create(values): validation, then one INSERT
create(st, nid, t, values, location, outcome) ==
    IF NameMissing(values.name)
    THEN Outcome(FALSE, NotNullMessage, <<>>, st, nid, <<>>)
    ELSE IF outcome # "ok"
    THEN Outcome(FALSE, ErrorMessage(outcome), <<>>, st, nid,
                 <<Call("insert", outcome, <<>>)>>)
    ELSE Insert(st, nid, t,
                Columns([values EXCEPT !.tags = TagsOrDefault(values.tags)],
                        location))

\* whether setting field f of the instance to a supplied value changes it
\* (deep equality of the JavaScript values: a string never equals a number)
FieldChanged(f, x, col) ==
    CASE x.t = "null" -> col # Null
      [] x.t = "num" -> IF f \in FloatFields THEN col # Some(x.n) ELSE TRUE
      [] x.t = "str" -> IF f \in StringFields THEN col # Some(x.s) ELSE TRUE
      [] x.t = "arr" -> IF f = "tags" THEN col # Some(x.s) ELSE TRUE

\* the fields of the values that are not undefined: update ignores the rest
Supplied(values) == {f \in Fields : values[f].t # "undef"}

Changed(old, values, location) ==
    \/ \E f \in Supplied(values) : FieldChanged(f, values[f], old[f])
    \/ location # FromGeometryColumn(old.location)

\* an update that writes every column, the undefined values as null
Overwritten(f, old, values, cols) == cols[f].val

Pick(f, old, values, cols) ==
    IF values[f].t # "undef" THEN cols[f].val ELSE old[f]

UpdatedRow(old, t, values, cols) ==
    [id |-> old.id,
     name |-> Pick("name", old, values, cols),
     description |-> Pick("description", old, values, cols),
     latitude |-> Pick("latitude", old, values, cols),
     longitude |-> Pick("longitude", old, values, cols),
     tags |-> Pick("tags", old, values, cols),
     rating |-> Pick("rating", old, values, cols),
     location |-> cols.location.val,
     createdAt |-> old.createdAt,
     updatedAt |-> t]

\* an UPDATE without its WHERE: every row takes the new values
Misaddressed(st, nid, id, row) ==
    Outcome(TRUE, "", <<row>>, [i \in DOMAIN st |-> [row EXCEPT !.id = i]],
            nid, <<Call("update", "ok", <<>>)>>)

Updated(st, nid, id, row) ==
    Outcome(TRUE, "", <<row>>, WithRow(st, id, row), nid,
            <<Call("update", "ok", <<>>)>>)

\* UPDATE "POIs" SET ... WHERE id
Update(st, nid, id, t, values, cols) ==
    IF ~Accepted(cols)
    THEN Outcome(FALSE, StoreErrorMessage, <<>>, st, nid,
                 <<Call("update", "rejected", <<>>)>>)
    ELSE Updated(st, nid, id, UpdatedRow(st[id], t, values, cols))

\* poi.update(values): undefined values are ignored; validation; when no
\* attribute changed nothing is sent to the store; else one UPDATE by id.
\* The instance returned carries the refreshed updatedAt either way.
update(st, nid, id, t, values, location, outcome) ==
    IF values.name.t # "undef" /\ NameMissing(values.name)
    THEN Outcome(FALSE, NotNullMessage, <<>>, st, nid, <<>>)
    ELSE IF ~Changed(st[id], values, location)
    THEN Outcome(TRUE, "", <<[st[id] EXCEPT !.updatedAt = t]>>, st, nid, <<>>)
    ELSE IF outcome # "ok"
    THEN Outcome(FALSE, ErrorMessage(outcome), <<>>, st, nid,
                 <<Call("update", outcome, <<>>)>>)
    ELSE Update(st, nid, id, t, values, Columns(values, location))

\* poi.update(values) on an instance read at an earlier round trip: the
\* values are compared with the instance, the UPDATE sets every value given
\* and touches the row of that id only if the table still has it; the
\* instance returned is the one read, with the values set
updateInstance(st, nid, poi, t, values, location, outcome) ==
    IF values.name.t # "undef" /\ NameMissing(values.name)
    THEN Outcome(FALSE, NotNullMessage, <<>>, st, nid, <<>>)
    ELSE IF ~Changed(poi, values, location)
    THEN Outcome(TRUE, "", <<[poi EXCEPT !.updatedAt = t]>>, st, nid, <<>>)
    ELSE IF outcome # "ok"
    THEN Outcome(FALSE, ErrorMessage(outcome), <<>>, st, nid,
                 <<Call("update", outcome, <<>>)>>)
    ELSE IF ~Accepted(Columns(values, location))
    THEN Outcome(FALSE, StoreErrorMessage, <<>>, st, nid,
                 <<Call("update", "rejected", <<>>)>>)
    ELSE Outcome(TRUE, "",
                 <<UpdatedRow(poi, t, values, Columns(values, location))>>,
                 IF poi.id \in DOMAIN st
                 THEN WithRow(st, poi.id,
                              UpdatedRow(st[poi.id], t, values,
                                         Columns(values, location)))
                 ELSE st,
                 nid, <<Call("update", "ok", <<>>)>>)

\* poi.destroy() on an instance read at an earlier round trip: the DELETE
\* by id is answered whether or not the table still has the row
destroyInstance(st, nid, poi, outcome) ==
    IF outcome # "ok"
    THEN Outcome(FALSE, ErrorMessage(outcome), <<>>, st, nid,
                 <<Call("delete", outcome, <<>>)>>)
    ELSE Outcome(TRUE, "", <<>>,
                 IF poi.id \in DOMAIN st THEN WithoutRow(st, poi.id) ELSE st,
                 nid, <<Call("delete", "ok", <<>>)>>)

\* a destroy that keeps the row (a soft delete)
SoftDeleted(st, nid, id, outcome) ==
    IF outcome # "ok"
    THEN Outcome(FALSE, ErrorMessage(outcome), <<>>, st, nid,
                 <<Call("delete", outcome, <<>>)>>)
    ELSE Outcome(TRUE, "", <<>>, st, nid, <<Call("delete", "ok", <<>>)>>)

\* poi.destroy(): one DELETE by id
destroy(st, nid, id, outcome) ==
    IF outcome # "ok"
    THEN Outcome(FALSE, ErrorMessage(outcome), <<>>, st, nid,
                 <<Call("delete", outcome, <<>>)>>)
    ELSE Outcome(TRUE, "", <<>>, WithoutRow(st, id), nid,
                 <<Call("delete", "ok", <<>>)>>)

----------------------------------------------------------------------------
(* The handlers.  o1 and o2 are the outcomes the environment gives the       *)
(* handler's first and second round trip.                                    *)

\* the geometry a write sets: the point (longitude, latitude) when both are
\* given, else `otherwise`
LocationOf(latitude, longitude, otherwise) ==
    IF NotNullish(latitude) /\ NotNullish(longitude)
    THEN Some([coordinates |-> <<JsNumber(longitude), JsNumber(latitude)>>])
    ELSE otherwise

\* res.status(500).json({ message: e?.message || fallback })
\* a handler without a catch: the rejection leaves the handler and no
\* response is written
Uncaught(message, fallback) == NoResponse

Failure(message, fallback) == Response(500, OrElse(message, fallback), "", <<>>)

NotFound == Response(404, NotFoundMessage, "", <<>>)

\* the response to a call on the model: status and entity, or the failure
\* a handler that sends a failed statement a second time before it gives up
Retried(done, status, body, fallback, first) ==
    IF done.ok
    THEN Result(Response(status, "", "", body), done.store, done.nextId,
                first \o done.calls)
    ELSE Result(Failure(done.message, fallback), done.store, done.nextId,
                first \o done.calls \o done.calls)

Reply(done, status, body, fallback, first) ==
    IF done.ok
    THEN Result(Response(status, "", "", body), done.store, done.nextId,
                first \o done.calls)
    ELSE Result(Failure(done.message, fallback), done.store, done.nextId,
                first \o done.calls)

Created(poi) == Reply(poi, 201, poi.row, "Failed to create POI", <<>>)

createPOI(st, nid, t, body, o1) ==
    Created(create(st, nid, t, Destructured(body),
                   LocationOf(body.latitude, body.longitude, Null), o1))

\* a handler without its `if (!poi)`: res.json(null) for a missing row
Unguarded(found, st, nid, fallback, reply) ==
    IF ~found.ok
    THEN Result(Failure(found.message, fallback), st, nid,
                <<Call("findByPk", found.outcome, <<>>)>>)
    ELSE IF ~found.found
    THEN Result(Response(200, "", "", <<>>), st, nid,
                <<Call("findByPk", "ok", <<>>)>>)
    ELSE reply

\* the handler after its findByPk: the failure, the 404, or `reply`
Found(found, st, nid, fallback, reply) ==
    IF ~found.ok
    THEN Result(Failure(found.message, fallback), st, nid,
                <<Call("findByPk", found.outcome, <<>>)>>)
    ELSE IF ~found.found
    THEN Result(NotFound, st, nid, <<Call("findByPk", "ok", <<>>)>>)
    ELSE reply

Saved(done) ==
    Reply(done, 200, done.row, "Failed to update POI",
          <<Call("findByPk", "ok", <<>>)>>)

UpdateFound(st, nid, t, found, body, o2) ==
    Found(found, st, nid, "Failed to update POI",
          Saved(update(st, nid, found.key, t, Destructured(body),
                       LocationOf(body.latitude, body.longitude,
                                  FromGeometryColumn(st[found.key].location)),
                       o2)))

updatePOI(st, nid, t, id, body, o1, o2) ==
    UpdateFound(st, nid, t, findByPk(st, id, o1), body, o2)

DeleteFound(st, nid, found, o2) ==
    Found(found, st, nid, "Failed to delete POI",
          Reply(destroy(st, nid, found.key, o2), 204, <<>>,
                "Failed to delete POI", <<Call("findByPk", "ok", <<>>)>>))

deletePOI(st, nid, id, o1, o2) == DeleteFound(st, nid, findByPk(st, id, o1), o2)

\* a lookup that stamps the row it reads
Touched(st, nid, found) ==
    Found(found, st, nid, "Failed to fetch POI",
          Result(Response(200, "", "", <<st[found.key]>>),
                 WithRow(st, found.key,
                         [st[found.key] EXCEPT !.updatedAt = @ + 1]),
                 nid, <<Call("findByPk", "ok", <<>>)>>))

GetFound(st, nid, found) ==
    Found(found, st, nid, "Failed to fetch POI",
          Result(Response(200, "", "", <<st[found.key]>>), st, nid,
                 <<Call("findByPk", "ok", <<>>)>>))

getPOIById(st, nid, id, o1) == GetFound(st, nid, findByPk(st, id, o1))

----------------------------------------------------------------------------
(* The radius query *)

\* the angle between two meridians dLng apart, at most a half turn
Wrapped(dLng) == IF dLng > 180 * Milli THEN 360 * Milli - dLng ELSE dLng

\* the central angle of two points <<lng, lat>>, their meridians dLng apart
CentralAngle(p, q, dLng) ==
    IF dLng = 0 THEN Abs(p[2] - q[2])
    ELSE IF dLng = 180 * Milli THEN 180 * Milli - Abs(p[2] + q[2])
    ELSE IF p[2] = 0 /\ q[2] = 0 THEN dLng
    ELSE IF Abs(p[2] - q[2]) + dLng > 180 * Milli THEN 180 * Milli
    ELSE Abs(p[2] - q[2]) + dLng

\* the arc of an angle given in thousandths of a degree, in whole metres
ArcMetres(angle) ==
    (angle \div Milli) * MetersPerDegree
    + ((angle % Milli) * MetersPerDegree) \div Milli

\* ST_Distance of two points <<lng, lat>> as geographies, in whole metres: the
\* great-circle distance on the sphere of mean radius, exact for two points
\* on one meridian, on opposite meridians, or both on the equator, which is
\* where the model's points lie (elsewhere: an upper bound).
ST_Distance(p, q) == ArcMetres(CentralAngle(p, q, Wrapped(Abs(p[1] - q[1]))))

\* ST_DWithin(a, b, r)
ST_DWithin(p, q, r) == ST_Distance(p, q) <= r

\* WHERE location IS NOT NULL AND ST_DWithin(location, point, radius)
Matching(st, point, radiusMeters) ==
    {i \in DOMAIN st :
        /\ st[i].location # Null
        /\ ST_DWithin(st[i].location[1], point, radiusMeters)}

Least(ds) == CHOOSE x \in ds : \A y \in ds : x <= y

\* the numbers of a set, ascending
RECURSIVE Ascending(_)
Ascending(ds) ==
    IF ds = {} THEN <<>> ELSE <<Least(ds)>> \o Ascending(ds \ {Least(ds)})

Reverse(seq) == [k \in 1..Len(seq) |-> seq[Len(seq) + 1 - k]]

\* the ids of a set in the order the store happens to give rows of equal
\* distance (SQL leaves it open): by id, ascending or descending
InTieOrder(ids, nid, tie) ==
    IF tie = "asc"
    THEN SelectSeq([k \in 1..(nid - 1) |-> k], LAMBDA k : k \in ids)
    ELSE Reverse(SelectSeq([k \in 1..(nid - 1) |-> k], LAMBDA k : k \in ids))

RECURSIVE Concat(_)
Concat(seqs) == IF seqs = <<>> THEN <<>> ELSE Head(seqs) \o Concat(Tail(seqs))

\* the ids, grouped by their distance in the order ds of the distances
Grouped(st, ids, point, nid, tie, ds) ==
    Concat([k \in 1..Len(ds) |->
              InTieOrder({i \in ids : ST_Distance(st[i].location[1], point) = ds[k]},
                         nid, tie)])

\* ORDER BY distance ASC
OrderByDistance(st, ids, point, nid, tie) ==
    Grouped(st, ids, point, nid, tie,
            Ascending({ST_Distance(st[i].location[1], point) : i \in ids}))

\* the query without its LIMIT
Unlimited(seq) == seq

\* LIMIT 200
Limit(seq) ==
    SubSeq(seq, 1, IF Len(seq) > NearbyLimit THEN NearbyLimit ELSE Len(seq))

\* the row the query selects for a POI: its columns, the geometry as GeoJSON
\* and the distance as the driver hands it over
Selected(row, point) ==
    [id |-> row.id, name |-> row.name, description |-> row.description,
     latitude |-> row.latitude, longitude |-> row.longitude, tags |-> row.tags,
     rating |-> row.rating, createdAt |-> row.createdAt,
     updatedAt |-> row.updatedAt,
     location |-> FromGeometryColumn(row.location),
     distance |-> JNum(ST_Distance(row.location[1], point))]

SelectAll(st, ids, point) == [k \in 1..Len(ids) |-> Selected(st[ids[k]], point)]

\* the radius query, bound to [lng, lat, radiusMeters]
NearbyQuery(st, nid, lng, lat, radiusMeters, tie) ==
    SelectAll(st,
              Limit(OrderByDistance(st, Matching(st, <<lng, lat>>, radiusMeters),
                                    <<lng, lat>>, nid, tie)),
              <<lng, lat>>)

\* { ...poi, distance: Number(poi.distance) }
Formatted(poi) == [poi EXCEPT !.distance = JsNumber(poi.distance)]

\* a handler that hands the rows over last first
Reranked(pois) == [k \in 1..Len(pois) |-> Formatted(pois[Len(pois) + 1 - k])]

FormattedPois(pois) == [k \in 1..Len(pois) |-> Formatted(pois[k])]

----------------------------------------------------------------------------
(* Nearby search *)

DefaultRadius == <<"5">>

\* the test of the superseded controller: isNaN(lat) || isNaN(lng)
CoordinatesMissing(lat, lng, radiusKm) == lat.nan \/ lng.nan

\* a check of the radius alone
RadiusMissing(lat, lng, radiusKm) == radiusKm.nan

\* isNaN(lat) || isNaN(lng) || isNaN(radiusKm)
InvalidParameters(lat, lng, radiusKm) == lat.nan \/ lng.nan \/ radiusKm.nan

\* the superseded controller checks no range
Unchecked(lat, lng) == FALSE

\* lat < -90 || lat > 90 || lng < -180 || lng > 180
InvalidCoordinates(lat, lng) ==
    \/ lat.v < MinLat * Milli
    \/ lat.v > MaxLat * Milli
    \/ lng.v < MinLng * Milli
    \/ lng.v > MaxLng * Milli

\* (req.query.radius as string) ?? '5'
RadiusOrDefault(radius) == IF radius = <<>> THEN <<DefaultRadius>> ELSE radius

\* radiusKm * 1000, in whole metres
RadiusMeters(radiusKm) == (radiusKm.v * MetersPerKm) \div Milli

\* the superseded controller runs the radius query without a probe
Unprobed(st, nid, env, bind, o2, tie) ==
    IF o2 # "ok"
    THEN Result(Response(500, NearbyFailedMessage,
                         IF env = "development" THEN ErrorMessage(o2) ELSE "",
                         <<>>),
                st, nid, <<Call("query", o2, bind)>>)
    ELSE Result(Response(200, "", "",
                         FormattedPois(NearbyQuery(st, nid, bind[1], bind[2],
                                                   bind[3], tie))),
                st, nid, <<Call("query", "ok", bind)>>)

\* the round trip of the radius query that answered with the rows pois
Fetched(bind, pois) ==
    [call |-> "query", outcome |-> "ok", args |-> bind, rows |-> pois]

\* res.json(formattedPois) of the rows the query answered with
Sent(st, nid, bind, pois) ==
    Result(Response(200, "", "", FormattedPois(pois)), st, nid,
           <<Call("probe", "ok", <<>>), Fetched(bind, pois)>>)

\* the probe passed: the radius query, bound to [lng, lat, radiusMeters]
Queried(st, nid, env, bind, o2, tie) ==
    IF o2 # "ok"
    THEN Result(Response(500, NearbyFailedMessage,
                         IF env = "development" THEN ErrorMessage(o2) ELSE "",
                         <<>>),
                st, nid, <<Call("probe", "ok", <<>>), Call("query", o2, bind)>>)
    ELSE Sent(st, nid, bind,
              NearbyQuery(st, nid, bind[1], bind[2], bind[3], tie))

\* the handler once lat, lng and radiusKm are parsed
Parsed(st, nid, env, lat, lng, radiusKm, o1, o2, tie) ==
    IF InvalidParameters(lat, lng, radiusKm)
    THEN Result(Response(400, InvalidParametersMessage, "", <<>>), st, nid, <<>>)
    ELSE IF InvalidCoordinates(lat, lng)
    THEN Result(Response(400, InvalidCoordinatesMessage, "", <<>>), st, nid, <<>>)
    ELSE IF o1 # "ok"
    THEN Result(Response(500, PostGISUnavailableMessage, "", <<>>), st, nid,
                <<Call("probe", o1, <<>>)>>)
    ELSE Queried(st, nid, env, <<lng.v, lat.v, RadiusMeters(radiusKm)>>, o2, tie)

getNearbyPOIs(st, nid, env, latQ, lngQ, radiusQ, o1, o2, tie) ==
    Parsed(st, nid, env, ParseFloat(latQ), ParseFloat(lngQ),
           ParseFloat(RadiusOrDefault(radiusQ)), o1, o2, tie)

----------------------------------------------------------------------------
(* The list *)

ListFailedMessage == "Failed to fetch POIs"

\* Number(req.query.x ?? d): x a query parameter
NumberOrDefault(q, d) == IF q = <<>> THEN Num(d * Milli) ELSE StringToNumber(q[1])

\* an offset that leaves the first page out
NextPage(page, limit) ==
    IF page.nan \/ limit.nan THEN NaN ELSE Num((page.v * limit.v) \div Milli)

\* (page - 1) * limit
Offset(page, limit) ==
    IF page.nan \/ limit.nan THEN NaN
    ELSE Num(((page.v - Milli) * limit.v) \div Milli)

\* the ids, grouped by their creation time in the order ts of the times
GroupedByCreation(st, nid, tie, ts) ==
    Concat([k \in 1..Len(ts) |->
              InTieOrder({i \in DOMAIN st : st[i].createdAt = ts[k]}, nid, tie)])

\* ORDER BY "createdAt" DESC
OrderByCreatedAtDesc(st, nid, tie) ==
    GroupedByCreation(st, nid, tie,
                      Reverse(Ascending({st[i].createdAt : i \in DOMAIN st})))

\* LIMIT limit OFFSET offset, both whole and not negative
LimitOffset(seq, limit, offset) ==
    SubSeq(seq, offset + 1,
           IF offset + limit > Len(seq) THEN Len(seq) ELSE offset + limit)

Rows(st, ids) == [k \in 1..Len(ids) |-> st[ids[k]]]

\* POI.findAndCountAll({ limit, offset, order }): the page and the count of
\* all rows; the store refuses a limit or an offset that is NaN or negative
findAndCountAll(st, nid, limit, offset, outcome, tie) ==
    IF outcome # "ok"
    THEN Outcome(FALSE, ErrorMessage(outcome), <<>>, st, nid,
                 <<Call("findAndCountAll", outcome, <<>>)>>)
    ELSE IF limit.nan \/ offset.nan \/ limit.v < 0 \/ offset.v < 0
    THEN Outcome(FALSE, StoreErrorMessage, <<>>, st, nid,
                 <<Call("findAndCountAll", "rejected", <<>>)>>)
    ELSE Outcome(TRUE, "",
                 <<[rows |-> Rows(st, LimitOffset(OrderByCreatedAtDesc(st, nid, tie),
                                                  limit.v \div Milli,
                                                  offset.v \div Milli)),
                    count |-> Cardinality(DOMAIN st)]>>,
                 st, nid, <<Call("findAndCountAll", "ok", <<>>)>>)

\* res.json({ data: rows, page, limit, total: count })
Listed(page, limit, done) ==
    IF done.ok
    THEN Result(Response(200, "", "",
                         <<[data |-> done.row[1].rows, page |-> page,
                            limit |-> limit, total |-> done.row[1].count]>>),
                done.store, done.nextId, done.calls)
    ELSE Result(Failure(done.message, ListFailedMessage), done.store,
                done.nextId, done.calls)

Paged(st, nid, page, limit, o1, tie) ==
    Listed(page, limit,
           findAndCountAll(st, nid, limit, Offset(page, limit), o1, tie))

getAllPOIs(st, nid, pageQ, limitQ, o1, tie) ==
    Paged(st, nid, NumberOrDefault(pageQ, DefaultPage),
          NumberOrDefault(limitQ, DefaultLimit), o1, tie)

----------------------------------------------------------------------------
(* Requests *)

NoBody == Body(JUndef, JUndef, JUndef, JUndef, JUndef, JUndef)

Request(op, id, body, lat, lng, radius) ==
    [op |-> op, id |-> id, body |-> body, lat |-> lat, lng |-> lng, radius |-> radius]

NoRequest == Request("none", <<>>, NoBody, <<>>, <<>>, <<>>)

\* the server, waiting for a request, handles one and sends its response in
\* one step; a write is committed at the next instant of the clock
Respond(r, result) ==
    /\ req' = r
    /\ resp' = result.resp
    /\ calls' = result.calls
    /\ store' = result.store
    /\ nextId' = result.nextId
    /\ now' = IF result.store # store THEN now + 1 ELSE now
    /\ UNCHANGED <<nodeEnv, process>>

\* a handler that runs from the request to the response with no other
\* handler in between
Handle(r, result) ==
    /\ Respond(r, result)
    /\ UNCHANGED pending

\* POST /api/pois
PostPOI(bodies) ==
    /\ phase = "listening"
    /\ req = NoRequest
    /\ nextId <= MaxId
    /\ now < MaxTime
    /\ \E body \in bodies, o1 \in Outcomes :
          \E result \in {createPOI(store, nextId, now + 1, body, o1)} :
              Handle(Request("create", <<>>, body, <<>>, <<>>, <<>>), result)

\* PUT /api/pois/:id
PutPOI(ids, bodies) ==
    /\ phase = "listening"
    /\ req = NoRequest
    /\ now < MaxTime
    /\ \E id \in ids, body \in bodies, o1 \in Outcomes, o2 \in Outcomes :
          \E result \in {updatePOI(store, nextId, now + 1, id, body, o1, o2)} :
              Handle(Request("update", id, body, <<>>, <<>>, <<>>), result)

\* DELETE /api/pois/:id
DeletePOI(ids) ==
    /\ phase = "listening"
    /\ req = NoRequest
    /\ now < MaxTime
    /\ \E id \in ids, o1 \in Outcomes, o2 \in Outcomes :
          \E result \in {deletePOI(store, nextId, id, o1, o2)} :
              Handle(Request("delete", id, NoBody, <<>>, <<>>, <<>>), result)

\* GET /api/pois/:id
GetPOI(ids) ==
    /\ phase = "listening"
    /\ req = NoRequest
    /\ \E id \in ids, o1 \in Outcomes :
        \E result \in {getPOIById(store, nextId, id, o1)} :
            Handle(Request("get", id, NoBody, <<>>, <<>>, <<>>), result)

\* GET /api/pois/nearby?lat=&lng=&radius=
GetNearby(lats, lngs, radii) ==
    /\ phase = "listening"
    /\ req = NoRequest
    /\ \E lat \in lats, lng \in lngs, radius \in radii,
          o1 \in Outcomes, o2 \in Outcomes, tie \in {"asc", "desc"} :
        \E result \in {getNearbyPOIs(store, nextId, nodeEnv, lat, lng, radius,
                                     o1, o2, tie)} :
            Handle(Request("nearby", <<>>, NoBody, lat, lng, radius), result)

\* a GET /api/pois request, with its page and limit
ListRequest(page, limit) ==
    [op |-> "list", id |-> <<>>, body |-> NoBody, lat |-> <<>>, lng |-> <<>>,
     radius |-> <<>>, page |-> page, limit |-> limit]

\* GET /api/pois?page=&limit=
GetList(pages, limits) ==
    /\ phase = "listening"
    /\ req = NoRequest
    /\ \E page \in pages, limit \in limits, o1 \in Outcomes,
          tie \in {"asc", "desc"} :
        \E result \in {getAllPOIs(store, nextId, page, limit, o1, tie)} :
            Handle(ListRequest(page, limit), result)

\* a route: its method, its path under /api/pois as a pattern (no segment,
\* a literal segment, or one parameter) and its handler
Route(method, kind, text, handler) ==
    [method |-> method, kind |-> kind, text |-> text, handler |-> handler]

NearbySegment == <<"n", "e", "a", "r", "b", "y">>

\* the router of an older revision: /:id is registered before /nearby
OlderRoutes ==
    <<Route("GET", "root", <<>>, "getAllPOIs"),
      Route("GET", "param", <<>>, "getPOIById"),
      Route("POST", "root", <<>>, "createPOI"),
      Route("PUT", "param", <<>>, "updatePOI"),
      Route("DELETE", "param", <<>>, "deletePOI"),
      Route("GET", "literal", NearbySegment, "getNearbyPOIs")>>

\* the router, in the order of registration
Routes ==
    <<Route("GET", "root", <<>>, "getAllPOIs"),
      Route("GET", "literal", NearbySegment, "getNearbyPOIs"),
      Route("GET", "param", <<>>, "getPOIById"),
      Route("POST", "root", <<>>, "createPOI"),
      Route("PUT", "param", <<>>, "updatePOI"),
      Route("DELETE", "param", <<>>, "deletePOI")>>

\* whether a route takes a path, the sequence of its segments
Matches(route, method, path) ==
    /\ route.method = method
    /\ CASE route.kind = "root" -> path = <<>>
         [] route.kind = "literal" -> path = <<route.text>>
         [] route.kind = "param" -> Len(path) = 1 /\ path[1] # <<>>

\* the handler of the first route that takes the path; when none does the
\* request falls through to the application's 404
Dispatch(routes, method, path) ==
    IF \E k \in DOMAIN routes : Matches(routes[k], method, path)
    THEN routes[CHOOSE k \in DOMAIN routes :
                   /\ Matches(routes[k], method, path)
                   /\ \A j \in 1..(k - 1) : ~Matches(routes[j], method, path)].handler
    ELSE "notFound"

RouteNotFoundMessage == "Not Found"

\* a request with the method and the path it came by
Routed(r, method, path) ==
    [f \in DOMAIN r \cup {"method", "path"} |->
        IF f = "method" THEN method ELSE IF f = "path" THEN path ELSE r[f]]

\* what the handler a GET is dispatched to does with it
Served(handler, st, nid, env, path, page, limit, lat, lng, radius, o1, o2, tie) ==
    CASE handler = "getAllPOIs" ->
           [req |-> Routed(ListRequest(page, limit), "GET", path),
            result |-> getAllPOIs(st, nid, page, limit, o1, tie)]
      [] handler = "getNearbyPOIs" ->
           [req |-> Routed(Request("nearby", <<>>, NoBody, lat, lng, radius),
                           "GET", path),
            result |-> getNearbyPOIs(st, nid, env, lat, lng, radius, o1, o2, tie)]
      [] handler = "getPOIById" ->
           [req |-> Routed(Request("get", path[1], NoBody, <<>>, <<>>, <<>>),
                           "GET", path),
            result |-> getPOIById(st, nid, path[1], o1)]
      [] handler = "notFound" ->
           [req |-> Routed(Request("unmatched", <<>>, NoBody, <<>>, <<>>, <<>>),
                           "GET", path),
            result |-> Result(Response(404, RouteNotFoundMessage, "", <<>>),
                              st, nid, <<>>)]

\* GET /api/pois<path>?<query>
Get(paths, pages, limits, lats, lngs, radii) ==
    /\ phase = "listening"
    /\ req = NoRequest
    /\ \E path \in paths, page \in pages, limit \in limits, lat \in lats,
          lng \in lngs, radius \in radii, o1 \in Outcomes, o2 \in Outcomes,
          tie \in {"asc", "desc"} :
        \E served \in {Served(Dispatch(Routes, "GET", path), store, nextId,
                              nodeEnv, path, page, limit, lat, lng, radius,
                              o1, o2, tie)} :
            Handle(served.req, served.result)

\* the response has gone out; the server waits for the next request
\* a handler suspended at the await of its write: its request and the
\* instance findByPk gave it
Suspended(op, id, body, poi) == [op |-> op, id |-> id, body |-> body, poi |-> poi]

Without(seq, k) == SubSeq(seq, 1, k - 1) \o SubSeq(seq, k + 1, Len(seq))

\* a write handler up to its second await: the lookup; a missing row or a
\* failed lookup is answered at once, else the handler waits for its write
Begin(op, fallback, ids, bodies) ==
    /\ phase = "listening"
    /\ req = NoRequest
    /\ Len(pending) < MaxPending
    /\ \E id \in ids, body \in bodies, o1 \in Outcomes :
        \E found \in {findByPk(store, id, o1)} :
            IF found.ok /\ found.found
            THEN /\ pending' = Append(pending,
                                      Suspended(op, id, body, store[found.key]))
                 /\ UNCHANGED <<store, nextId, now, nodeEnv, process, req,
                                resp, calls>>
            ELSE Handle(Request(op, id, body, <<>>, <<>>, <<>>),
                        Found(found, store, nextId, fallback,
                              Result(NoResponse, store, nextId, <<>>)))

\* PUT /api/pois/:id up to `await poi.update`
PutBegin(ids, bodies) == Begin("update", "Failed to update POI", ids, bodies)

\* DELETE /api/pois/:id up to `await poi.destroy`
DeleteBegin(ids) == Begin("delete", "Failed to delete POI", ids, {NoBody})

\* a suspended PUT runs to its response: the location is the point of the
\* body's coordinates or the one of the instance read, then poi.update
PutEnd ==
    /\ phase = "listening"
    /\ req = NoRequest
    /\ now < MaxTime
    /\ \E k \in DOMAIN pending, o2 \in Outcomes :
        /\ pending[k].op = "update"
        /\ \E result \in
              {Saved(updateInstance(
                   store, nextId, pending[k].poi, now + 1,
                   Destructured(pending[k].body),
                   LocationOf(pending[k].body.latitude,
                              pending[k].body.longitude,
                              FromGeometryColumn(pending[k].poi.location)),
                   o2))} :
              Respond(Request("update", pending[k].id, pending[k].body,
                              <<>>, <<>>, <<>>), result)
        /\ pending' = Without(pending, k)

\* a suspended DELETE runs to its response: poi.destroy, then 204
DeleteEnd ==
    /\ phase = "listening"
    /\ req = NoRequest
    /\ now < MaxTime
    /\ \E k \in DOMAIN pending, o2 \in Outcomes :
        /\ pending[k].op = "delete"
        /\ \E result \in
              {Reply(destroyInstance(store, nextId, pending[k].poi, o2), 204,
                     <<>>, "Failed to delete POI",
                     <<Call("findByPk", "ok", <<>>)>>)} :
              Respond(Request("delete", pending[k].id, NoBody,
                              <<>>, <<>>, <<>>), result)
        /\ pending' = Without(pending, k)

\* GET /health: { status: 'ok' }, without a look at the store
Health ==
    /\ phase = "listening"
    /\ req = NoRequest
    /\ Handle(Request("health", <<>>, NoBody, <<>>, <<>>, <<>>),
              Result(Response(200, "", "", <<[status |-> "ok"]>>), store,
                     nextId, <<>>))

Done ==
    /\ req # NoRequest
    /\ req' = NoRequest
    /\ resp' = NoResponse
    /\ calls' = <<>>
    /\ UNCHANGED <<store, nextId, now, nodeEnv, process, pending>>

----------------------------------------------------------------------------
(* The start of the process *)

ExitFailure == 1

\* db.ts without its guard, as the setup notes have it:
\* new Sequelize(process.env.DATABASE_URL || 'postgres://...')
LoadDbWithDefault ==
    /\ phase = "loading"
    /\ sequelize' = Some(IF databaseUrl \in {<<>>, <<<<>>>>}
                         THEN <<"d">> ELSE databaseUrl[1])
    /\ phase' = "starting"
    /\ UNCHANGED <<databaseUrl, steps, exitCode, store, nextId, now, nodeEnv,
                   req, resp, calls, pending>>

\* the modules load: db.ts throws when DATABASE_URL is not set or empty, and
\* the process ends on the uncaught error; else it constructs the connection
LoadDb ==
    /\ phase = "loading"
    /\ IF databaseUrl \in {<<>>, <<<<>>>>}
       THEN /\ phase' = "exited"
            /\ exitCode' = Some(ExitFailure)
            /\ UNCHANGED sequelize
       ELSE /\ sequelize' = Some(databaseUrl[1])
            /\ phase' = "starting"
            /\ UNCHANGED exitCode
    /\ UNCHANGED <<databaseUrl, steps, store, nextId, now, nodeEnv, req, resp,
                   calls, pending>>

\* a start that goes on after a step failed
Degraded(name, k) ==
    /\ phase = "starting"
    /\ Len(steps) = k
    /\ \E outcome \in Outcomes : steps' = Append(steps, Call(name, outcome, <<>>))
    /\ UNCHANGED <<phase, exitCode>>
    /\ UNCHANGED <<databaseUrl, sequelize, store, nextId, now, nodeEnv, req,
                   resp, calls, pending>>

\* the (k+1)-th awaited step of the start: it succeeds, or the catch logs
\* the error and calls process.exit(1)
BootStep(name, k) ==
    /\ phase = "starting"
    /\ Len(steps) = k
    /\ \E outcome \in Outcomes :
          /\ steps' = Append(steps, Call(name, outcome, <<>>))
          /\ IF outcome = "ok"
             THEN UNCHANGED <<phase, exitCode>>
             ELSE /\ phase' = "exited"
                  /\ exitCode' = Some(ExitFailure)
    /\ UNCHANGED <<databaseUrl, sequelize, store, nextId, now, nodeEnv, req,
                   resp, calls, pending>>

\* await sequelize.authenticate()
Authenticate == BootStep("authenticate", 0)

\* await sequelize.query('CREATE EXTENSION IF NOT EXISTS postgis')
EnsureExtension == BootStep("extension", 1)

\* await sequelize.sync(): the table is created if it is not there
Sync == BootStep("sync", 2)

\* app.listen(PORT)
Listen ==
    /\ phase = "starting"
    /\ Len(steps) = 3
    /\ phase' = "listening"
    /\ UNCHANGED <<databaseUrl, sequelize, steps, exitCode, store, nextId, now,
                   nodeEnv, req, resp, calls, pending>>

\* the start went through
Started ==
    <<Call("authenticate", "ok", <<>>), Call("extension", "ok", <<>>),
      Call("sync", "ok", <<>>)>>

\* the process as it serves requests
Serving ==
    /\ databaseUrl = <<<<"u">>>>
    /\ sequelize = Some(databaseUrl[1])
    /\ phase = "listening"
    /\ steps = Started
    /\ exitCode = Null

----------------------------------------------------------------------------
(* The inputs the requests are drawn from *)

NodeEnvs == {"development", "production"}

IdString(n) == <<CHOOSE c \in Digits : DigitVal(c) = n>>

\* path ids: those the sequence can assign, and one that is no integer
PathIds == {IdString(n) : n \in 1..MaxId} \cup {<<"x">>}

\* { name, latitude: 1, longitude: 0, tags: ["park"] }
LocatedBody ==
    Body(JStr(<<"a">>), JUndef, JNum(1 * Milli), JNum(0), JArr(<<"park">>), JUndef)
\* { name, description }
PlainBody == Body(JStr(<<"b">>), JStr(<<"d">>), JUndef, JUndef, JUndef, JUndef)
\* { rating: 4.7 }
RatingBody == Body(JUndef, JUndef, JUndef, JUndef, JUndef, JNum(4700))
\* { latitude: 0 }
LatitudeBody == Body(JUndef, JUndef, JNum(0), JUndef, JUndef, JUndef)
\* { latitude: null }
NullLatitudeBody == Body(JUndef, JUndef, JNull, JUndef, JUndef, JUndef)
\* { name, latitude: "0", longitude: "" }: Number("") is 0, the store rejects ""
EmptyStringBody ==
    Body(JStr(<<"a">>), JUndef, JStr(<<"0">>), JStr(<<>>), JUndef, JUndef)
\* { name: null }
NullNameBody == Body(JNull, JUndef, JUndef, JUndef, JUndef, JUndef)
\* { name, latitude: "0", longitude: "0" }
EquatorBody ==
    Body(JStr(<<"c">>), JUndef, JStr(<<"0">>), JStr(<<"0">>), JUndef, JUndef)

Bodies ==
    {LocatedBody, PlainBody, RatingBody, LatitudeBody, NullLatitudeBody,
     EmptyStringBody, NullNameBody, EquatorBody}

----------------------------------------------------------------------------
(* The CRUD handlers over an empty table *)

Idle ==
    /\ req = NoRequest
    /\ resp = NoResponse
    /\ calls = <<>>
    /\ pending = <<>>

Init ==
    /\ store = <<>>
    /\ nextId = 1
    /\ now = 0
    /\ nodeEnv \in NodeEnvs
    /\ Serving
    /\ Idle

Next ==
    \/ PostPOI(Bodies)
    \/ PutPOI(PathIds, Bodies)
    \/ DeletePOI(PathIds)
    \/ GetPOI(PathIds)
    \/ Done

Spec == Init /\ [][Next]_vars

----------------------------------------------------------------------------
(* Nearby search over a small table *)

Absent == <<>>
Param(chars) == <<chars>>

\* lat: absent, "", "x", "0", "1", "1x", "90", "90.5", "-91"
Lats ==
    {Absent, Param(<<>>), Param(<<"x">>), Param(<<"0">>), Param(<<"1">>),
     Param(<<"1", "x">>), Param(<<"9", "0">>), Param(<<"9", "0", ".", "5">>),
     Param(<<"-", "9", "1">>)}

\* lng: absent, "x", "0", "180", "181", "-180.5"
Lngs ==
    {Absent, Param(<<"x">>), Param(<<"0">>), Param(<<"1", "8", "0">>),
     Param(<<"1", "8", "1">>), Param(<<"-", "1", "8", "0", ".", "5">>)}

\* radius: absent, "", "x", "0", "112", "2km"
Radii ==
    {Absent, Param(<<>>), Param(<<"x">>), Param(<<"0">>),
     Param(<<"1", "1", "2">>), Param(<<"2", "k", "m">>)}

NearbyBodies == {LocatedBody, PlainBody}

NextNearby ==
    \/ PostPOI(NearbyBodies)
    \/ GetNearby(Lats, Lngs, Radii)
    \/ Done

SpecNearby == Init /\ [][NextNearby]_vars

----------------------------------------------------------------------------
(* Nearby search over a table that holds more POIs than the query returns *)

\* the body of the n-th POST that filled the table
SeedBody(n) ==
    CASE n % 3 = 1 -> LocatedBody
      [] n % 3 = 2 -> EquatorBody
      [] n % 3 = 0 -> PlainBody

\* the table after n POSTs, all at instant 0: each row is the one its POST
\* inserted
Seeded(n) == [i \in 1..n |-> createPOI(<<>>, i, 0, SeedBody(i), "ok").store[i]]

\* as many POIs that two in three, the located ones, reach or pass the limit
SeedSizes == {(3 * NearbyLimit) \div 2 + 3 * k : k \in 0..BulkExtra}

InitBulk ==
    /\ \E n \in SeedSizes :
          /\ store = Seeded(n)
          /\ nextId = n + 1
    /\ now = 0
    /\ nodeEnv \in NodeEnvs
    /\ Serving
    /\ Idle

\* lat: "0", "1", "-91"; lng: "0", "x"; radius: absent, "0", "112"
BulkLats == {Param(<<"0">>), Param(<<"1">>), Param(<<"-", "9", "1">>)}
BulkLngs == {Param(<<"0">>), Param(<<"x">>)}
BulkRadii == {Absent, Param(<<"0">>), Param(<<"1", "1", "2">>)}

NextBulk ==
    \/ DeletePOI(PathIds)
    \/ GetNearby(BulkLats, BulkLngs, BulkRadii)
    \/ Done

SpecBulk == InitBulk /\ [][NextBulk]_vars

----------------------------------------------------------------------------
(* The process from its start *)

\* DATABASE_URL: absent, "", "u"
DatabaseUrls == {Absent, Param(<<>>), Param(<<"u">>)}

InitBoot ==
    /\ databaseUrl \in DatabaseUrls
    /\ sequelize = Null
    /\ phase = "loading"
    /\ steps = <<>>
    /\ exitCode = Null
    /\ store = <<>>
    /\ nextId = 1
    /\ now = 0
    /\ nodeEnv \in NodeEnvs
    /\ Idle

NextBoot ==
    \/ LoadDb
    \/ Authenticate
    \/ EnsureExtension
    \/ Sync
    \/ Listen
    \/ PostPOI(NearbyBodies)
    \/ GetPOI(PathIds)
    \/ Done

SpecBoot == InitBoot /\ [][NextBoot]_vars

----------------------------------------------------------------------------
(* GET requests through the router *)

\* /, /1 .. /MaxId, /x, /nearby, /1/2
GetPaths ==
    {<<>>, <<NearbySegment>>, <<<<"1">>, <<"2">>>>} \cup {<<id>> : id \in PathIds}

NextRoutes ==
    \/ PostPOI(NearbyBodies)
    \/ Get(GetPaths, {Absent}, {Absent, Param(<<"1">>)}, {Param(<<"0">>)},
           {Param(<<"0">>), Param(<<"x">>)}, {Param(<<"1", "1", "2">>)})
    \/ Done

SpecRoutes == Init /\ [][NextRoutes]_vars

----------------------------------------------------------------------------
(* The list over tables of several pages *)

\* the table after n POSTs at instants before the clock's 0, two to an instant
SeededAt(n) ==
    [i \in 1..n |-> createPOI(<<>>, i, (i \div 2) - n, SeedBody(i), "ok").store[i]]

\* no POI, some pages of POIs, more POIs than the default limit
ListSizes == {0, ListRows, DefaultLimit + BulkExtra}

InitList ==
    /\ \E n \in ListSizes :
          /\ store = SeededAt(n)
          /\ nextId = n + 1
    /\ now = 0
    /\ nodeEnv \in NodeEnvs
    /\ Serving
    /\ Idle

\* page: absent, "", "1", "2", "3", "x"
Pages ==
    {Absent, Param(<<>>), Param(<<"1">>), Param(<<"2">>), Param(<<"3">>),
     Param(<<"x">>)}

\* limit: absent, "0", "2", "10", "x"
Limits ==
    {Absent, Param(<<"0">>), Param(<<"2">>), Param(<<"1", "0">>), Param(<<"x">>)}

NextList ==
    \/ DeletePOI(PathIds)
    \/ GetList(Pages, Limits)
    \/ Done

SpecList == InitList /\ [][NextList]_vars

----------------------------------------------------------------------------
(* Writers of one row, their handlers interleaved at the awaits *)

InitRace ==
    /\ store = Seeded(1)
    /\ nextId = 2
    /\ now = 0
    /\ nodeEnv \in NodeEnvs
    /\ Serving
    /\ Idle

\* both coordinates, or none
RaceBodies == {EquatorBody, RatingBody}

RaceIds == {IdString(1), IdString(2)}

NextRace ==
    \/ PutBegin(RaceIds, RaceBodies)
    \/ PutEnd
    \/ DeleteBegin(RaceIds)
    \/ DeleteEnd
    \/ Done

SpecRace == InitRace /\ [][NextRace]_vars

----------------------------------------------------------------------------
(* The six handlers together *)

\* { id: 2, name, latitude: "0", longitude: "0" }
NumberedBody == WithId(EquatorBody, JNum(2 * Milli))

HandlerBodies == {LocatedBody, RatingBody, NullNameBody, NumberedBody}

NextHandlers ==
    \/ PostPOI(HandlerBodies)
    \/ PutPOI(PathIds, HandlerBodies)
    \/ DeletePOI(PathIds)
    \/ GetPOI(PathIds)
    \/ GetList({Absent, Param(<<"2">>)}, {Absent, Param(<<"1">>)})
    \/ GetNearby({Absent, Param(<<"0">>), Param(<<"-", "9", "1">>)},
                 {Param(<<"0">>)}, {Absent, Param(<<"x">>)})
    \/ Health
    \/ Done

SpecHandlers == Init /\ [][NextHandlers]_vars

----------------------------------------------------------------------------
(* Properties of nearby search.  They read the request being answered, its  *)
(* response and the round trips made for it.                                 *)

Nearby == req.op = "nearby"

LatAsked == ParseFloat(req.lat)
LngAsked == ParseFloat(req.lng)
RadiusAsked == ParseFloat(req.radius)

\* a number outside [lo, hi] degrees
Outside(x, lo, hi) == ~x.nan /\ (x.v < lo * Milli \/ x.v > hi * Milli)

OutOfRange == Outside(LatAsked, MinLat, MaxLat) \/ Outside(LngAsked, MinLng, MaxLng)

\* radius is given and parseFloat finds no number in it
RadiusMalformed == req.radius # Absent /\ RadiusAsked.nan

NoStoreCall == calls = <<>>

Queries == {k \in DOMAIN calls : calls[k].call = "query"}

\* C1 as stated: every nearby request with lat outside [-90, 90] or lng
\* outside [-180, 180] is answered 400 with the InvalidCoordinates message and
\* without any store call.
OutOfRangeIsInvalidCoordinates ==
    (Nearby /\ OutOfRange) =>
        /\ resp.status = 400
        /\ resp.message = InvalidCoordinatesMessage
        /\ NoStoreCall

\* C1, amended: a nearby request with lat or lng out of range is answered 400
\* without any store call; the message is InvalidCoordinates when lat, lng and
\* radius all parse as numbers, and InvalidParameters when one of them is
\* missing or does not parse.
OutOfRangeRejected ==
    (Nearby /\ OutOfRange) =>
        /\ resp.status = 400
        /\ NoStoreCall
        /\ resp.message =
              IF LatAsked.nan \/ LngAsked.nan \/ RadiusMalformed
              THEN InvalidParametersMessage
              ELSE InvalidCoordinatesMessage

\* lng=181 with a good lat and radius, over a table that holds POIs
OutOfRangeSeen ==
    /\ Nearby
    /\ Outside(LngAsked, MinLng, MaxLng)
    /\ ~LatAsked.nan
    /\ ~RadiusMalformed
    /\ resp.message = InvalidCoordinatesMessage
    /\ DOMAIN store # {}

\* C2: a nearby request in which lat or lng is missing, or holds no number
\* parseFloat can read, is answered 400 with the InvalidParameters message,
\* and no round trip to the store is made.
MissingCoordinateRejected ==
    (Nearby /\ (LatAsked.nan \/ LngAsked.nan)) =>
        /\ resp.status = 400
        /\ resp.message = InvalidParametersMessage
        /\ NoStoreCall

\* lat is there and reads as a number, lng is missing
MissingCoordinateSeen ==
    /\ Nearby
    /\ ~LatAsked.nan
    /\ req.lng = Absent
    /\ resp.status = 400
    /\ DOMAIN store # {}

\* C3: an absent radius is the default of 5 km, so the query, when it is
\* made, is bound to 5000 m; a radius that is given but holds no number is
\* answered 400 and no query is made, with the default or otherwise; and a
\* query that is made for a given radius is bound to that radius.
RadiusValidated ==
    /\ (Nearby /\ req.radius = Absent) =>
          \A k \in Queries : calls[k].args[3] = DefaultRadiusKm * MetersPerKm
    /\ (Nearby /\ RadiusMalformed) =>
          /\ resp.status = 400
          /\ Queries = {}
    /\ (Nearby /\ req.radius # Absent) =>
          \A k \in Queries :
              calls[k].args[3] = (RadiusAsked.v * MetersPerKm) \div Milli

\* radius=x with good coordinates
MalformedRadiusSeen ==
    /\ Nearby
    /\ RadiusMalformed
    /\ ~LatAsked.nan /\ ~LngAsked.nan /\ ~OutOfRange
    /\ resp.status = 400
    /\ DOMAIN store # {}

\* C4: a nearby request with valid inputs starts with the probe; a radius
\* query is made only right after a probe that passed; and when the probe
\* fails the answer is 500 with the PostGIS message and the probe is the only
\* round trip.
ProbeBeforeQuery ==
    /\ (Nearby /\ ~LatAsked.nan /\ ~LngAsked.nan /\ ~RadiusMalformed /\ ~OutOfRange) =>
          /\ calls # <<>>
          /\ calls[1].call = "probe"
    /\ \A k \in Queries :
          /\ k > 1
          /\ calls[k - 1].call = "probe"
          /\ calls[k - 1].outcome = "ok"
    /\ (Nearby /\ calls # <<>> /\ calls[1].call = "probe" /\ calls[1].outcome # "ok") =>
          /\ resp.status = 500
          /\ resp.message = PostGISUnavailableMessage
          /\ Len(calls) = 1

\* the probe failed
ProbeFailureSeen ==
    /\ Nearby
    /\ calls # <<>>
    /\ calls[1].call = "probe"
    /\ calls[1].outcome # "ok"
    /\ resp.status = 500
    /\ DOMAIN store # {}

\* a nearby request answered with rows
Answered == Nearby /\ resp.status = 200

AskedPoint == <<LngAsked.v, LatAsked.v>>

\* radius * 1000, in whole metres
AskedMetres ==
    IF req.radius = Absent
    THEN DefaultRadiusKm * MetersPerKm
    ELSE (RadiusAsked.v * MetersPerKm) \div Milli

DistanceTo(i) == ST_Distance(store[i].location[1], AskedPoint)

\* the POIs that have a location, within the radius of the point asked for
Within == {i \in DOMAIN store : store[i].location # Null /\ DistanceTo(i) <= AskedMetres}

Returned == {resp.body[k].id : k \in DOMAIN resp.body}

\* C5: the rows of a successful nearby search are POIs of the table with a
\* location no farther than radius * 1000 m from (lat, lng), each once and
\* with that distance, in ascending order of distance and at most 200; a
\* matching POI is left out only when 200 rows are returned, and then it is
\* no nearer than the last of them.
NearestWithinRadius ==
    Answered =>
        /\ Len(resp.body) <= NearbyLimit
        /\ Returned \subseteq Within
        /\ Cardinality(Returned) = Len(resp.body)
        /\ \A k \in DOMAIN resp.body :
              resp.body[k].distance = Num(DistanceTo(resp.body[k].id))
        /\ \A k \in 1..(Len(resp.body) - 1) :
              resp.body[k].distance.v <= resp.body[k + 1].distance.v
        /\ (Within \ Returned # {}) =>
              /\ Len(resp.body) = NearbyLimit
              /\ \A i \in Within \ Returned :
                    DistanceTo(i) >= resp.body[NearbyLimit].distance.v

\* more than 200 POIs match, at two distances, and some have no location
LimitReached ==
    /\ Answered
    /\ Len(resp.body) = NearbyLimit
    /\ Within \ Returned # {}
    /\ resp.body[1].distance.v < resp.body[NearbyLimit].distance.v
    /\ \E i \in DOMAIN store : store[i].location = Null

----------------------------------------------------------------------------
(* Properties of the table and of the CRUD handlers *)

BothSet(row) == row.latitude # Null /\ row.longitude # Null

\* C6: every POI of the table whose latitude and longitude are both set has
\* the point (longitude, latitude) as its location.
LocationInSync ==
    \A i \in DOMAIN store :
        BothSet(store[i]) =>
            store[i].location = Some(<<store[i].longitude[1], store[i].latitude[1]>>)

\* C7: every POI of the table whose latitude or longitude is null has a null
\* location.
LocationOnlyWithCoordinates ==
    \A i \in DOMAIN store : ~BothSet(store[i]) => store[i].location = Null

\* the step in which a request of kind op is handled
Handled(op) == req = NoRequest /\ req'.op = op

\* the POIs the path id of the request being handled names
Named == {i \in DOMAIN store : req'.id = IdString(i)}

\* but for updatedAt, which every write refreshes, row j is as it was
Kept(j, fields) ==
    /\ j \in DOMAIN store'
    /\ store'[j].id = store[j].id
    /\ store'[j].createdAt = store[j].createdAt
    /\ store'[j].location = store[j].location
    /\ \A f \in fields : store'[j][f] = store[j][f]

\* C8: an update of an existing POI whose body has neither latitude nor
\* longitude leaves the POI's location, latitude and longitude and every
\* field the body does not have as they were (updatedAt, which the store
\* refreshes on every write, apart), and leaves every other POI, and the set
\* of POIs, as it was.
UpdateWithoutCoordinates ==
    [][(/\ Handled("update")
        /\ Named # {}
        /\ req'.body.latitude.t = "undef"
        /\ req'.body.longitude.t = "undef")
       => /\ DOMAIN store' = DOMAIN store
          /\ \A j \in DOMAIN store \ Named : store'[j] = store[j]
          /\ \A i \in Named :
                Kept(i, {f \in Fields : req'.body[f].t = "undef"})]_vars

\* { rating: 4.7 } has been written to a POI that has a location, next to
\* another POI
RatingUpdated ==
    /\ req.op = "update"
    /\ req.body = RatingBody
    /\ resp.status = 200
    /\ Cardinality(DOMAIN store) > 1
    /\ \E i \in DOMAIN store :
          /\ req.id = IdString(i)
          /\ store[i].rating = Some(4700)
          /\ store[i].location # Null
          /\ store[i].updatedAt > store[i].createdAt

\* the store answered the findByPk of the request being handled
LookupAnswered ==
    /\ calls' # <<>>
    /\ calls'[1].call = "findByPk"
    /\ calls'[1].outcome = "ok"

Derived(body, row) ==
    IF NotNullish(body.latitude) /\ NotNullish(body.longitude)
    THEN Some(<<row.longitude[1], row.latitude[1]>>)
    ELSE Null

\* C10: a create that the store accepts responds 201 with the one POI it
\* added to the table: the id is the next of the sequence, both timestamps
\* are the instant of the write, location is the point (longitude, latitude)
\* when the body has both coordinates and null otherwise, tags is empty when
\* the body has none, every other POI is as it was, and a get-by-id of the
\* new id then returns the same entity, so the same coordinates.  A create
\* that responds otherwise responds 500 and leaves the table as it was.
CreateStoresOne ==
    [][Handled("create")
       => IF resp'.status = 201
          THEN /\ nextId \notin DOMAIN store
               /\ DOMAIN store' = DOMAIN store \cup {nextId}
               /\ \A j \in DOMAIN store : store'[j] = store[j]
               /\ nextId' = nextId + 1
               /\ resp'.body = <<store'[nextId]>>
               /\ store'[nextId].id = nextId
               /\ store'[nextId].createdAt = now'
               /\ store'[nextId].updatedAt = now'
               /\ now' > now
               /\ store'[nextId].location = Derived(req'.body, store'[nextId])
               /\ req'.body.tags.t = "undef" => store'[nextId].tags = Some(<<>>)
               /\ getPOIById(store', nextId', IdString(nextId), "ok").resp
                     = Response(200, "", "", resp'.body)
          ELSE /\ resp'.status = 500
               /\ store' = store
               /\ nextId' = nextId]_vars

\* a second POI has been created, with its coordinates and without tags
CreatedSeen ==
    /\ req.op = "create"
    /\ resp.status = 201
    /\ Cardinality(DOMAIN store) > 1
    /\ resp.body[1].location # Null
    /\ resp.body[1].tags = Some(<<>>)
    /\ resp.body[1].id > 1

\* every round trip of the request being handled was answered by the store
AllAnswered == \A k \in DOMAIN calls' : calls'[k].outcome = "ok"

\* C11: a delete of an existing id that the store carries out responds 204
\* and removes that row and no other, every other row staying as it was; a
\* delete that responds otherwise leaves the table as it was; an id that the
\* sequence has assigned and that is no longer in the table never comes
\* back; and a get-by-id of an id that is not in the table responds 404
\* whenever the store answers its lookup (500 when it does not).
DeleteRemovesOne ==
    [][/\ Handled("delete") =>
              /\ (Named # {} /\ AllAnswered) => resp'.status = 204
              /\ IF resp'.status = 204
                 THEN /\ Named # {}
                      /\ DOMAIN store' = DOMAIN store \ Named
                      /\ \A j \in DOMAIN store' : store'[j] = store[j]
                      /\ resp'.body = <<>>
                 ELSE store' = store
       /\ \A i \in 1..(nextId - 1) : i \notin DOMAIN store => i \notin DOMAIN store'
       /\ nextId' >= nextId
       /\ (Handled("get") /\ Named = {}) =>
              /\ resp'.status \in {404, 500}
              /\ LookupAnswered => resp'.status = 404]_vars

\* a get-by-id of an id that was deleted, next to a POI that was not
DeletedNotFound ==
    /\ req.op = "get"
    /\ resp.status = 404
    /\ \E n \in 1..(nextId - 1) : req.id = IdString(n) /\ n \notin DOMAIN store
    /\ DOMAIN store # {}

----------------------------------------------------------------------------
(* Properties of the list *)

\* a list request answered with a page
ListAnswered == req.op = "list" /\ resp.status = 200

\* page and limit as asked for, in thousandths
PageAsked ==
    IF req.page = Absent THEN DefaultPage * Milli ELSE StringToNumber(req.page[1]).v
LimitAsked ==
    IF req.limit = Absent THEN DefaultLimit * Milli ELSE StringToNumber(req.limit[1]).v

\* (p - 1) * n, the rows before the page
Skipped == ((PageAsked \div Milli) - 1) * (LimitAsked \div Milli)

ListData == resp.body[1].data

\* the POIs of the table created after, and not before, a row
Newer(row) == {i \in DOMAIN store : store[i].createdAt > row.createdAt}
NotOlder(row) == {i \in DOMAIN store : store[i].createdAt >= row.createdAt}

\* what is left of the table after the rows skipped, at most the limit
PageLength ==
    IF Cardinality(DOMAIN store) - Skipped < 0 THEN 0
    ELSE IF Cardinality(DOMAIN store) - Skipped > LimitAsked \div Milli
    THEN LimitAsked \div Milli
    ELSE Cardinality(DOMAIN store) - Skipped

\* C12: a list answered with page p and limit n (1 and 50 when absent)
\* echoes p and n, reports the number of all POIs of the table as total, and
\* its data are the POIs ranked (p-1)*n+1 to p*n by creation time,
\* descending, as far as the table goes: rows of the table, each once,
\* newest first, the k-th of them holding rank (p-1)*n+k in an order by
\* creation time.  A list the store answers is answered so.
ListPage ==
    /\ (req.op = "list" /\ calls # <<>> /\ calls[1].outcome = "ok") =>
          resp.status = 200
    /\ ListAnswered =>
          /\ resp.body[1].page = Num(PageAsked)
          /\ resp.body[1].limit = Num(LimitAsked)
          /\ resp.body[1].total = Cardinality(DOMAIN store)
          /\ Len(ListData) = PageLength
          /\ \A k \in DOMAIN ListData :
                /\ ListData[k].id \in DOMAIN store
                /\ ListData[k] = store[ListData[k].id]
                /\ Cardinality(Newer(ListData[k])) <= Skipped + k - 1
                /\ Cardinality(NotOlder(ListData[k])) >= Skipped + k
          /\ \A k \in 1..(Len(ListData) - 1) :
                ListData[k].createdAt >= ListData[k + 1].createdAt
          /\ Cardinality({ListData[k].id : k \in DOMAIN ListData}) = Len(ListData)

\* page=2, limit=10 over a table of some pages: ten rows, total the table
SecondPageSeen ==
    /\ ListAnswered
    /\ req.page = Param(<<"2">>)
    /\ req.limit = Param(<<"1", "0">>)
    /\ Len(ListData) = 10
    /\ resp.body[1].total >= ListRows
    /\ resp.body[1].total < DefaultLimit
    /\ ListData[1].createdAt > ListData[10].createdAt

----------------------------------------------------------------------------
(* Properties of the start *)

BootOrder == <<"authenticate", "extension", "sync">>

StepFailed == \E k \in DOMAIN steps : steps[k].outcome # "ok"

NonZeroExit == exitCode # Null /\ exitCode[1] # 0

\* C13: the start makes its round trips in the order connectivity check,
\* extension ensure, schema ensure, each only after the ones before it
\* succeeded; the server listens, and a request is handled, only after all
\* three succeeded; and once a step has failed the process has exited with a
\* non-zero code, without listening.
StartInOrder ==
    /\ Len(steps) <= Len(BootOrder)
    /\ \A k \in DOMAIN steps :
          /\ steps[k].call = BootOrder[k]
          /\ k < Len(steps) => steps[k].outcome = "ok"
    /\ (phase = "listening" \/ req # NoRequest) =>
          /\ phase = "listening"
          /\ Len(steps) = Len(BootOrder)
          /\ ~StepFailed
          /\ exitCode = Null
    /\ StepFailed =>
          /\ phase = "exited"
          /\ NonZeroExit
          /\ req = NoRequest

\* the extension could not be ensured
StartFailed ==
    /\ Len(steps) = 2
    /\ steps[2].outcome # "ok"
    /\ phase = "exited"

NotSet == databaseUrl \in {Absent, Param(<<>>)}

----------------------------------------------------------------------------
(* Properties of the router *)

\* C14: a GET of /api/pois/nearby is handled by nearby search, never by
\* get-by-id with the id "nearby"; a GET of any other single segment is
\* handled by get-by-id with that segment as its id.
NearbyBeforeId ==
    /\ ~(req.op = "get" /\ req.id = NearbySegment)
    /\ (req.op \in {"get", "nearby", "list", "unmatched"} /\ req.method = "GET") =>
          /\ req.path = <<NearbySegment>> => req.op = "nearby"
          /\ (Len(req.path) = 1 /\ req.path # <<NearbySegment>>) =>
                /\ req.op = "get"
                /\ req.id = req.path[1]
          /\ req.op = "nearby" => req.path = <<NearbySegment>>

\* GET /api/pois/nearby?lat=0&lng=0 has been answered with rows
NearbyRouted ==
    /\ req.op = "nearby"
    /\ req.path = <<NearbySegment>>
    /\ resp.status = 200
    /\ resp.body # <<>>

----------------------------------------------------------------------------
(* Properties of the failures *)

NearbyMessages ==
    {InvalidParametersMessage, InvalidCoordinatesMessage,
     PostGISUnavailableMessage, NearbyFailedMessage}

\* the kinds of failure of the nearby request being answered, by their cause
Malformed == LatAsked.nan \/ LngAsked.nan \/ RadiusMalformed
Misplaced == ~Malformed /\ OutOfRange
ProbeFailed == calls # <<>> /\ calls[Len(calls)].call = "probe" /\ calls[Len(calls)].outcome # "ok"
QueryFailed == calls # <<>> /\ calls[Len(calls)].call = "query" /\ calls[Len(calls)].outcome # "ok"

\* C15: the four messages of nearby search differ from one another; a nearby
\* request fails exactly when its input is malformed, its coordinates are out
\* of range, the probe fails or the query fails, and then it reports the one
\* message of the first of these that applies: the InvalidParameters or the
\* InvalidCoordinates message with 400, the PostGIS or the generic message
\* with 500.
FourFailureKinds ==
    Nearby =>
          /\ Cardinality(NearbyMessages) = 4
          /\ resp.status \in {200, 400, 500}
          /\ resp.status = 200 <=> ~(Malformed \/ Misplaced \/ ProbeFailed \/ QueryFailed)
          /\ Malformed =>
                resp.status = 400 /\ resp.message = InvalidParametersMessage
          /\ Misplaced =>
                resp.status = 400 /\ resp.message = InvalidCoordinatesMessage
          /\ ProbeFailed =>
                resp.status = 500 /\ resp.message = PostGISUnavailableMessage
          /\ QueryFailed =>
                resp.status = 500 /\ resp.message = NearbyFailedMessage
          /\ resp.status # 200 =>
                Cardinality({m \in NearbyMessages : resp.message = m}) = 1

\* the radius query failed after the probe passed
QueryFailureSeen ==
    /\ Nearby
    /\ QueryFailed
    /\ Len(calls) = 2
    /\ resp.status = 500
    /\ DOMAIN store # {}

\* a round trip of the request being answered failed with an error that
\* has a message
StoreFailed == \E k \in DOMAIN calls : calls[k].outcome = "err"

\* C16: a 500 for a store failure carries the error's own message when
\* NODE_ENV is not production, and does not carry it when NODE_ENV is
\* production.
MessageByMode ==
    (resp.status = 500 /\ StoreFailed) =>
        IF nodeEnv = "production"
        THEN StoreErrorMessage \notin {resp.message, resp.error}
        ELSE StoreErrorMessage \in {resp.message, resp.error}

\* C18: every POI of the table has a name; a create whose body has no name
\* or a null one, and an update whose body has a null name, is answered with
\* an error (500 from the model's validation; for the update 404 when the
\* row is not there) and leaves the table as it was.
NameRequired ==
    [][/\ \A i \in DOMAIN store' : store'[i].name # Null
       /\ (Handled("create") /\ ~NotNullish(req'.body.name)) =>
              /\ resp'.status = 500
              /\ store' = store
       /\ (Handled("update") /\ req'.body.name.t = "null") =>
              /\ resp'.status \in {404, 500}
              /\ resp'.status = 404 <=> (LookupAnswered /\ Named = {})
              /\ store' = store]_vars

\* an update to a null name has been refused for a POI of the table
NullNameRefused ==
    /\ req.op = "update"
    /\ req.body = NullNameBody
    /\ resp.status = 500
    /\ resp.message = NotNullMessage
    /\ \E i \in DOMAIN store : req.id = IdString(i)

\* the names of the round trips of the request being answered, in order
RoundTrips == [k \in DOMAIN calls |-> calls[k].call]

NoRetry ==
    \A j, k \in DOMAIN calls : j # k => calls[j].call # calls[k].call

Statuses == {200, 201, 204, 400, 404, 500}

\* C20: a request to any of the six handlers is answered with one response,
\* a failed round trip with a 500, and the process goes on listening and
\* takes the next request.
AlwaysAnswered ==
    [][/\ (req = NoRequest /\ req' # NoRequest) =>
              /\ resp' # NoResponse
              /\ resp'.status \in Statuses
              /\ (\E k \in DOMAIN calls' : calls'[k].outcome # "ok") =>
                     resp'.status = 500
              /\ phase' = "listening"
              /\ exitCode' = Null
       /\ (req # NoRequest /\ req' = NoRequest) =>
              /\ resp # NoResponse
              /\ phase' = "listening"
              /\ Idle']_vars

\* a delete whose statement failed after the lookup has been answered 500
FailureAnswered ==
    /\ req.op = "delete"
    /\ Len(calls) = 2
    /\ calls[2].outcome # "ok"
    /\ resp.status = 500
    /\ phase = "listening"

\* the columns the radius query selects beside the distance
SelectedFields ==
    {"id", "name", "description", "latitude", "longitude", "tags", "rating",
     "createdAt", "updatedAt", "location"}

\* C21: the body of a successful nearby search is the rows the radius query
\* answered with, as many and in that order, every column as the store gave
\* it and the distance as the number Number() makes of it.
RowsPassedThrough ==
    Answered =>
        /\ Queries # {}
        /\ \A q \in Queries :
              /\ Len(resp.body) = Len(calls[q].rows)
              /\ \A k \in DOMAIN resp.body :
                    /\ DOMAIN resp.body[k] = SelectedFields \cup {"distance"}
                    /\ \A f \in SelectedFields :
                          resp.body[k][f] = calls[q].rows[k][f]
                    /\ resp.body[k].distance = JsNumber(calls[q].rows[k].distance)
                    /\ ~resp.body[k].distance.nan

\* the query answered with two rows that differ in their id and their
\* timestamps alone
TwinsKept ==
    /\ Answered
    /\ Len(resp.body) = 2
    /\ resp.body[1].id # resp.body[2].id
    /\ \A f \in SelectedFields \ {"id", "createdAt", "updatedAt"} :
          resp.body[1][f] = resp.body[2][f]

Reads == {"nearby", "list", "get", "health"}

\* C22: nearby search, list, get-by-id and health leave the table as it was,
\* whatever they are asked and however the store answers: the same rows with
\* the same fields, and the same next id.
ReadsNeverWrite ==
    [][(req = NoRequest /\ req'.op \in Reads) =>
           /\ store' = store
           /\ nextId' = nextId
           /\ now' = now]_vars

\* each of the four reads has been answered over a table that has rows:
\* this one is a list the store failed
ListFailedOverRows ==
    /\ req.op = "list"
    /\ resp.status = 500
    /\ DOMAIN store # {}

\* the row a request path addresses, if its id is one
Addressed(id) == {i \in DOMAIN store : ToIntegerKey(id) = Stored(i)}

\* C23: the id of a row is the key the store keeps it under; a create gives
\* the new row the store's next id, whatever id its body carries; no step
\* changes the id of a row; and an update leaves the set of rows and every
\* row but the one its path addresses as they were, whatever id its body
\* carries.
IdImmutable ==
    [][/\ \A i \in DOMAIN store' : store'[i].id = i
       /\ (Handled("create") /\ resp'.status = 201) =>
              /\ DOMAIN store' = DOMAIN store \cup {nextId}
              /\ nextId \notin DOMAIN store
              /\ nextId' = nextId + 1
              /\ resp'.body[1].id = nextId
              /\ \A i \in DOMAIN store : store'[i] = store[i]
       /\ Handled("create") /\ resp'.status # 201 =>
              /\ store' = store
              /\ nextId' = nextId
       /\ Handled("update") =>
              /\ DOMAIN store' = DOMAIN store
              /\ nextId' = nextId
              /\ \A i \in DOMAIN store \ Addressed(req'.id) :
                    store'[i] = store[i]]_vars

\* the row 1 has been updated by a request whose body carries the id 2,
\* the id of another row
OtherIdInBody ==
    /\ req.op = "update"
    /\ resp.status = 200
    /\ req.body = NumberedBody
    /\ Addressed(req.id) = {1}
    /\ DOMAIN store = {1, 2}
    /\ resp.body[1].id = 1
    /\ Len(calls) = 2

----------------------------------------------------------------------------
(* Properties of concurrent writers *)

Quiet == pending = <<>>

\* C24: when updates of one row that give both coordinates and updates that
\* give none have all been answered, in whatever order their round trips
\* ran, the location of the row is the point of its longitude and latitude.
LocationSurvivesRace ==
    Quiet =>
        \A i \in DOMAIN store :
            BothSet(store[i]) =>
                store[i].location
                    = Some(<<store[i].longitude[1], store[i].latitude[1]>>)

\* C25: an update answered 200 or a delete answered 204 after its write
\* found the row in the table when the write ran.
SuccessOnlyIfPresent ==
    [][(/\ req = NoRequest
        /\ req'.op \in {"update", "delete"}
        /\ resp'.status \in {200, 204}
        /\ Len(calls') = 2) =>
           Addressed(req'.id) # {}]_vars

====
